---- MODULE Spec2Model ----
(***************************************************************************)
(* Model of the plg-backend reward service: the DynamoDB-backed UserStore  *)
(* (src/src/models/User.ts), the token gateway BlockchainService           *)
(* (src/unnamed/part_004, lines 1-215), the request handlers of            *)
(* src/src/controllers/cryptoController.ts (rewardTokens, linkWallet,      *)
(* loadAndGenerateWallets) and rewardCurrency (src/unnamed/part_003).      *)
(*                                                                         *)
(* Every await of the source is a step of a process; every command sent to *)
(* the store is executed atomically by the store (DynamoDB item-level      *)
(* atomicity), and a command the store rejects has no effect.              *)
(***************************************************************************)
EXTENDS Integers, Sequences, FiniteSets, TLC

\* ------------------------------------------------------------------ bounds
NumCallers == 2
NumLinks == 1
NumClears == 1
NumLoaders == 2
NumRewards == 1
MaxOps == 2

Callers == 1..NumCallers
Clearers == 1..NumClears
Loaders == 1..NumLoaders
Rewards == 1..NumRewards

Users == {"u1"}

\* ------------------------------------------------------------------ strings
\* A string is a sequence of one-character strings.
IsSpace(ch) == ch = " "

RECURSIVE TrimStart(_)
TrimStart(s) ==
  IF s = <<>> THEN <<>>
  ELSE IF IsSpace(Head(s)) THEN TrimStart(Tail(s)) ELSE s

RECURSIVE TrimEnd(_)
TrimEnd(s) ==
  IF s = <<>> THEN <<>>
  ELSE IF IsSpace(s[Len(s)]) THEN TrimEnd(SubSeq(s, 1, Len(s) - 1)) ELSE s

\* String.prototype.trim
Trim(s) == TrimEnd(TrimStart(s))

HexChars == {"0", "1", "2", "3", "4", "5", "6", "7", "8", "9",
             "a", "b", "c", "d", "e", "f", "A", "B", "C", "D", "E", "F"}

AddressHexLen == 40

\* /^0x[a-fA-F0-9]{40}$/.test(address)
isValidEthereumAddress(address) ==
  /\ Len(address) = 2 + AddressHexLen
  /\ address[1] = "0"
  /\ address[2] = "x"
  /\ \A i \in 3..Len(address) : address[i] \in HexChars

\* an address made of the prefix and n copies of one character
MkAddress(prefix, ch, n) == prefix \o [i \in 1..n |-> ch]

Addr1 == MkAddress(<<"0", "x">>, "1", AddressHexLen)
AddrA == MkAddress(<<"0", "x">>, "a", AddressHexLen)
AddrB == MkAddress(<<"0", "x">>, "b", AddressHexLen)
AddrShort == MkAddress(<<"0", "x">>, "1", AddressHexLen - 1)
AddrNonHex == MkAddress(<<"0", "x">>, "g", AddressHexLen)
Blank == <<>>

\* ------------------------------------------------------------------ numbers
Digits == {"0", "1", "2", "3", "4", "5", "6", "7", "8", "9"}

DigitValue(ch) ==
  CASE ch = "0" -> 0 [] ch = "1" -> 1 [] ch = "2" -> 2 [] ch = "3" -> 3 [] ch = "4" -> 4
    [] ch = "5" -> 5 [] ch = "6" -> 6 [] ch = "7" -> 7 [] ch = "8" -> 8 [] ch = "9" -> 9

\* the longest prefix of s made of digits
RECURSIVE DigitPrefix(_)
DigitPrefix(s) ==
  IF s = <<>> \/ Head(s) \notin Digits THEN <<>>
  ELSE <<Head(s)>> \o DigitPrefix(Tail(s))

\* the number written by a sequence of digits (0 for none)
RECURSIVE DigitsToNat(_)
DigitsToNat(ds) ==
  IF ds = <<>> THEN 0
  ELSE 10 * DigitsToNat(SubSeq(ds, 1, Len(ds) - 1)) + DigitValue(ds[Len(ds)])

Drop(s, n) == SubSeq(s, n + 1, Len(s))

\* A decimal number: sign * mantissa / 10^frac; nan when nothing was parsed.
NaN == [nan |-> TRUE, sign |-> 1, mantissa |-> 0, frac |-> 0]
Decimal(sign, mantissa, frac) ==
  [nan |-> FALSE, sign |-> sign, mantissa |-> mantissa, frac |-> frac]

\* parseFloat: leading white space is skipped, then the longest prefix of the
\* form [+-]digits[.digits] is read and whatever follows is ignored
\* (exponents are not among the inputs of the model)
ParseFloat(str) ==
  LET s0 == TrimStart(str)
      signed == s0 # <<>> /\ Head(s0) \in {"+", "-"}
      sign == IF signed /\ Head(s0) = "-" THEN -1 ELSE 1
      s1 == IF signed THEN Tail(s0) ELSE s0
      int == DigitPrefix(s1)
      s2 == Drop(s1, Len(int))
      dotted == s2 # <<>> /\ Head(s2) = "."
      fraction == IF dotted THEN DigitPrefix(Tail(s2)) ELSE <<>>
  IN IF int = <<>> /\ fraction = <<>> THEN NaN
     ELSE Decimal(sign, DigitsToNat(int \o fraction), Len(fraction))

IsNaN(x) == x.nan
\* x <= 0, false for NaN as every comparison with NaN
LessOrEqualZero(x) == ~x.nan /\ (x.sign = -1 \/ x.mantissa = 0)

\* A big integer m * 10^e (token base units do not fit a machine word).
Big(m, e) == [m |-> m, e |-> e]

MaxShift == 6

RECURSIVE Pow10(_)
Pow10(n) == IF n = 0 THEN 1 ELSE 10 * Pow10(n - 1)

\* BigNumber.gte, for mantissas below 10^MaxShift
Gte(a, b) ==
  LET lo == IF a.e < b.e THEN a.e ELSE b.e
      da == a.e - lo
      db == b.e - lo
  IN IF da > MaxShift THEN a.m > 0 \/ b.m = 0
     ELSE IF db > MaxShift THEN b.m = 0
     ELSE a.m * Pow10(da) >= b.m * Pow10(db)

\* ethers.utils.parseUnits(amount, decimals): the value must be a plain
\* decimal string whose fraction has at most `decimals` digits (the inputs of
\* the model carry no trailing zeros)
ParseUnitsOk(amount, decimals) ==
  /\ amount # <<>>
  /\ \A i \in 1..Len(amount) :
        amount[i] \in Digits \cup {"."} \/ (i = 1 /\ amount[i] = "-")
  /\ Cardinality({i \in 1..Len(amount) : amount[i] = "."}) <= 1
  /\ amount \notin {<<".">>, <<"-">>, <<"-", ".">>}
  /\ ParseFloat(amount).frac <= decimals

ParseUnits(amount, decimals) ==
  LET x == ParseFloat(amount)
  IN Big(x.sign * x.mantissa, decimals - x.frac)

\* ------------------------------------------------------------------ JSON values
\* A field of a request body: missing, a string or a number.
JsUndefined == [type |-> "undefined", str |-> <<>>, num |-> 0]
JsString(s) == [type |-> "string", str |-> s, num |-> 0]
JsNumber(n) == [type |-> "number", str |-> <<>>, num |-> n]

\* !value
Falsy(value) ==
  \/ value.type = "undefined"
  \/ value.type = "string" /\ value.str = <<>>
  \/ value.type = "number" /\ value.num = 0

\* a decimal literal in full: [+-]digits[.digits] or [+-].digits
IsDecimalLiteral(s) ==
  LET signed == s # <<>> /\ Head(s) \in {"+", "-"}
      s1 == IF signed THEN Tail(s) ELSE s
      int == DigitPrefix(s1)
      s2 == Drop(s1, Len(int))
      dotted == s2 # <<>> /\ Head(s2) = "."
      fraction == IF dotted THEN DigitPrefix(Tail(s2)) ELSE <<>>
      rest == IF dotted THEN Drop(s2, 1 + Len(fraction)) ELSE s2
  IN (int # <<>> \/ fraction # <<>>) /\ rest = <<>>

\* Number(value): a string is trimmed and must be a numeric literal in full
\* ('' is 0); anything else in it makes NaN (hexadecimal, exponent and
\* Infinity literals are not among the inputs of the model)
ToNumber(value) ==
  IF value.type = "number"
  THEN Decimal(IF value.num < 0 THEN -1 ELSE 1,
               IF value.num < 0 THEN -value.num ELSE value.num, 0)
  ELSE IF value.type = "string"
  THEN LET s == Trim(value.str)
       IN IF s = <<>> THEN Decimal(1, 0, 0)
          ELSE IF IsDecimalLiteral(s) THEN ParseFloat(s) ELSE NaN
  ELSE NaN

\* the integer a whole Decimal stands for
IntegerOf(x) == x.sign * x.mantissa

\* validation.ts lines 5-15
isNumeric(value) ==
  IF value.type = "number" THEN TRUE
  ELSE IF value.type = "string" /\ Trim(value.str) # <<>> THEN ~IsNaN(ToNumber(value))
  ELSE FALSE

LowerLetters == <<"a", "b", "c", "d", "e", "f", "g", "h", "i", "j", "k", "l", "m",
                  "n", "o", "p", "q", "r", "s", "t", "u", "v", "w", "x", "y", "z">>
UpperLetters == <<"A", "B", "C", "D", "E", "F", "G", "H", "I", "J", "K", "L", "M",
                  "N", "O", "P", "Q", "R", "S", "T", "U", "V", "W", "X", "Y", "Z">>

\* the symbol is stored as it was sent
ToUpperCaseNone(s) == s

\* String.prototype.toUpperCase
ToUpperCase(s) ==
  [i \in 1..Len(s) |->
     IF \E k \in 1..Len(LowerLetters) : LowerLetters[k] = s[i]
     THEN UpperLetters[CHOOSE k \in 1..Len(LowerLetters) : LowerLetters[k] = s[i]]
     ELSE s[i]]

\* ------------------------------------------------------------------ inputs
CurP == <<"P">>
CurQ == <<"Q">>
CurSpaces == <<" ", " ">>
CurrencyInputs == {CurP, CurQ, Blank, CurSpaces}
AmountInputs == {-5, 0, 5, 10}
WalletInputs == {Addr1, AddrShort, AddrNonHex}
UserIdInputs == Users \cup {""}
TokenInputs == {Addr1, AddrNonHex, Blank}
Amount105 == <<"1", "0", ".", "5">>
AmountNegative == <<"-", "1", "0">>
AmountTrailing == <<"1", "0", "a">>
AmountStrings == {Amount105, AmountNegative, AmountTrailing, Blank}

\* bodies of POST /reward-currency: three that pass the validation and one
\* for each way of failing it
Body(userId, currency, amount) == [userId |-> userId, currency |-> currency, amount |-> amount]
CurLowerP == <<"p">>
CurPaddedP == <<" ", "P", " ">>
CurLowerQ == <<"q">>
ValidBodies ==
  { Body("u1", JsString(CurLowerP), JsNumber(10)),
    Body("u1", JsString(CurPaddedP), JsString(<<"5">>)),
    Body("u1", JsString(CurLowerQ), JsNumber(10)) }
InvalidBodies ==
  { Body("", JsString(CurLowerP), JsNumber(10)),
    Body("u1", JsUndefined, JsNumber(10)),
    Body("u1", JsString(Blank), JsNumber(10)),
    Body("u1", JsNumber(7), JsNumber(10)),
    Body("u1", JsString(CurSpaces), JsNumber(10)),
    Body("u1", JsString(CurLowerP), JsUndefined),
    Body("u1", JsString(CurLowerP), JsString(<<"a", "b", "c">>)),
    Body("u1", JsString(CurLowerP), JsString(<<"1", "0", "a", "b", "c">>)),
    Body("u1", JsString(CurLowerP), JsString(CurSpaces)),
    Body("u1", JsString(CurLowerP), JsNumber(0)),
    Body("u1", JsString(CurLowerP), JsNumber(-5)),
    Body("u1", JsString(CurLowerP), JsString(<<"-", "5">>)) }
BodyInputs == ValidBodies \cup InvalidBodies

\* ------------------------------------------------------------------ store
\* One row per userId.  currencyMap is a nested map attribute that may be
\* missing from the item altogether (hasMap = FALSE).
EmptyMap == [k \in {} |-> 0]

\* createdAt and updatedAt are readings of the clock (new Date().toISOString()).
NoItem == [exists |-> FALSE, walletAddress |-> Blank,
           hasMap |-> FALSE, currencyMap |-> EmptyMap, createdAt |-> 0, updatedAt |-> 0]

Item(wallet, hasMap, map) ==
  [exists |-> TRUE, walletAddress |-> wallet, hasMap |-> hasMap, currencyMap |-> map,
   createdAt |-> 0, updatedAt |-> 0]

\* UpdateExpression '... SET updatedAt = :timestamp'
SetUpdatedAt(item, timestamp) == [item EXCEPT !.updatedAt = timestamp]

\* the balance a reader of the item sees for one currency (0 when missing)
BalanceOf(item, currency) ==
  IF item.exists /\ item.hasMap /\ currency \in DOMAIN item.currencyMap
  THEN item.currencyMap[currency] ELSE 0

\* the condition never holds
MainConditionNever(item) == FALSE

\* ConditionExpression: 'attribute_exists(userId) AND attribute_exists(currencyMap)'
MainCondition(item) == item.exists /\ item.hasMap

\* the command carries no condition
UserExistsConditionNone(item) == TRUE

\* ConditionExpression: 'attribute_exists(userId)'
UserExistsCondition(item) == item.exists

\* a write that sets the key instead of adding to it
AddToMapOverwrite(map, currency, amount) ==
  [k \in DOMAIN map \cup {currency} |-> IF k = currency THEN amount ELSE map[k]]

\* UpdateExpression 'ADD currencyMap.#currency :amount' on an item whose
\* currencyMap exists: a missing key is created with the amount
AddToMap(map, currency, amount) ==
  [k \in DOMAIN map \cup {currency} |->
     IF k = currency
     THEN (IF currency \in DOMAIN map THEN map[currency] ELSE 0) + amount
     ELSE map[k]]

\* An UpdateCommand writes the item under its key, creating it when missing.
AddExpression(item, currency, amount) ==
  [item EXCEPT !.exists = TRUE,
               !.currencyMap = AddToMap(item.currencyMap, currency, amount)]

\* ReturnValues: 'NONE': the command returns no attributes
ReturnValuesNone(newItem) == NoItem

\* ReturnValues: 'ALL_NEW': the command returns the item as written
ReturnValues(newItem) == newItem

\* UpdateExpression 'SET currencyMap = if_not_exists(currencyMap, :emptyMap)'
\* 'SET currencyMap = :emptyMap': the container is replaced
InitMapOverwrite(item) ==
  [item EXCEPT !.exists = TRUE, !.hasMap = TRUE, !.currencyMap = EmptyMap]

InitMapExpression(item) ==
  IF item.hasMap THEN [item EXCEPT !.exists = TRUE]
  ELSE [item EXCEPT !.exists = TRUE, !.hasMap = TRUE, !.currencyMap = EmptyMap]

\* ------------------------------------------------------------------ messages
\* An error message is a sequence of phrases; a wrapper prepends its phrase.
\* String.prototype.includes is decided phrase by phrase.
PhraseAmountPositive == "Amount to add must be positive."
PhraseCurrencyEmpty == "Currency symbol cannot be empty."
PhraseUserNotFound == "User with ID ${userId} not found."
PhraseCouldNotBeUpdated ==
  "User with ID ${userId} could not be updated (potentially deleted during operation)."
PhraseFailedAfterInit ==
  "Failed to update balance for ${currency} for user ${userId} after attempting map initialization: "
PhraseCouldNotUpdate == "Could not update balance for ${currency} for user ${userId}: "
PhraseCouldNotRetrieve == "Could not retrieve user ${userId}: "
PhraseCouldNotLink == "Could not link wallet for user ${userId}: "
PhraseInvalidWallet == "Invalid Ethereum wallet address"
PhraseNoAttributes1 == "Update attempt 1 succeeded but returned no attributes."
PhraseNoAttributesRetry == "Retry update succeeded but returned no attributes."
PhraseStoreDown == "store request failed"
PhraseInvalidPath ==
  "The document path provided in the update expression is invalid for update"

NoResult == [status |-> "none", message |-> <<>>, item |-> NoItem]
Success(item) == [status |-> "ok", message |-> <<>>, item |-> item]
Failure(message) == [status |-> "error", message |-> message, item |-> NoItem]

\* ------------------------------------------------------------------ state
VARIABLES
  store,     \* the Users table: userId -> item
  store0,    \* the table as it was at start (never changes)
  upc,       \* updateCurrencyBalance call of each caller: position
  uarg,      \* its arguments
  ures,      \* its outcome
  usent,     \* the commands it has sent to the store, in order
  uapplied,  \* whether a command of the call has changed some balance
  ukept,     \* whether its heal write ran on a container holding a balance
  links,     \* the outcomes of the linkWallet calls made so far, in order
  plink,     \* the POST /link-wallet requests answered so far, in order
  cpc,       \* clearAllUsers run: position
  cscan,     \* the userIds its scan returned
  lpc,       \* GET /load request: position
  luser,     \* its userId parameter
  lres,      \* its response
  rpc,       \* GET /reward request: position
  rq,        \* its query parameters
  rctx,      \* who called hasAdminSufficientBalance: the controller or transferTokens
  rloc,      \* locals: the user read, balance, decimals and base-unit amounts
  rlog,      \* the calls it has made to the store and the chain, in order
  rres,      \* its response
  apc,       \* POST /reward-currency request served with each caller's call: position
  abody,     \* its body
  ares,      \* its response
  now,       \* the clock of the server
  utime,     \* the timestamp each updateCurrencyBalance call took when it began
  vres       \* the last address put to the two validators, and their answers

storeVars == <<store, store0>>
updVars == <<upc, uarg, ures, usent, uapplied, ukept, utime>>
linkVars == <<links, plink>>
clearVars == <<cpc, cscan>>
loadVars == <<lpc, luser, lres>>
rewardVars == <<rpc, rq, rctx, rloc, rlog, rres>>
adminVars == <<apc, abody, ares>>
clockVars == <<now>>
validatorVars == <<vres>>
vars == <<store, store0, upc, uarg, ures, usent, uapplied, ukept, links, plink, cpc, cscan,
          lpc, luser, lres, rpc, rq, rctx, rloc, rlog, rres, apc, abody, ares,
          now, utime, vres>>

NoArgs == [userId |-> "u1", currency |-> Blank, amount |-> 0]

\* the balances of the whole table, as a reader sees them
Balances(st) == [u \in Users |-> [c \in CurrencyInputs |-> BalanceOf(st[u], c)]]

InitialItems ==
  { NoItem,
    Item(Blank, FALSE, EmptyMap),
    Item(Addr1, FALSE, EmptyMap),
    Item(Addr1, TRUE, [k \in {CurP} |-> 3]) }

InitStore ==
  /\ store \in [Users -> InitialItems]
  /\ store0 = store

InitUpd ==
  /\ upc = [p \in Callers |-> "idle"]
  /\ uarg = [p \in Callers |-> NoArgs]
  /\ ures = [p \in Callers |-> NoResult]
  /\ usent = [p \in Callers |-> <<>>]
  /\ uapplied = [p \in Callers |-> FALSE]
  /\ ukept = [p \in Callers |-> FALSE]
  /\ utime = [p \in Callers |-> 0]

NoResponse == [code |-> 0, status |-> "none", message |-> <<>>, details |-> <<>>,
               data |-> NoItem]

InitOthers ==
  /\ links = <<>>
  /\ plink = <<>>
  /\ cpc = [k \in Clearers |-> "idle"]
  /\ cscan = [k \in Clearers |-> {}]
  /\ lpc = [l \in Loaders |-> "idle"]
  /\ luser = [l \in Loaders |-> ""]
  /\ lres = [l \in Loaders |-> NoResponse]

NoQuery == [token |-> Blank, amount |-> Blank, userId |-> ""]
NoTokenInfo == [ok |-> FALSE, name |-> "", symbol |-> "", decimals |-> 0]
NoMetadata == [name |-> FALSE, symbol |-> FALSE, decimals |-> [ok |-> FALSE, value |-> 0]]
NoLocals == [user |-> NoItem, code |-> "", recode |-> "", balance |-> Big(0, 0),
             checked |-> Big(0, 0),
             sufficient |-> "unknown", recheck |-> "unknown",
             amountInWei |-> Big(0, 0), metadata |-> NoMetadata, tokenInfo |-> NoTokenInfo]
NoReply == [code |-> 0, status |-> "none", message |-> <<>>, details |-> <<>>,
            hasErrors |-> FALSE, data |-> <<>>]

InitReward ==
  /\ rpc = [r \in Rewards |-> "idle"]
  /\ rq = [r \in Rewards |-> NoQuery]
  /\ rctx = [r \in Rewards |-> "controller"]
  /\ rloc = [r \in Rewards |-> NoLocals]
  /\ rlog = [r \in Rewards |-> <<>>]
  /\ rres = [r \in Rewards |-> NoReply]

NoBody == Body("", JsUndefined, JsUndefined)

InitAdmin ==
  /\ apc = [p \in Callers |-> "idle"]
  /\ abody = [p \in Callers |-> NoBody]
  /\ ares = [p \in Callers |-> NoResponse]

NoAnswer == [address |-> Blank, asked |-> FALSE, gateway |-> FALSE, store |-> FALSE]

InitClock ==
  /\ now = 0
  /\ vres = NoAnswer

Init == InitStore /\ InitUpd /\ InitOthers /\ InitReward /\ InitAdmin /\ InitClock

\* the linkWallet calls and the POST /link-wallet requests that ended before one
LinkOps == Len(links) + Cardinality({i \in DOMAIN plink : ~plink[i].called})

\* the number of operations started so far; a run starts at most MaxOps
Started ==
  Cardinality({p \in Callers : upc[p] # "idle" \/ apc[p] # "idle"}) + LinkOps
    + Cardinality({k \in Clearers : cpc[k] # "idle"})
    + Cardinality({l \in Loaders : lpc[l] # "idle"})
    + Cardinality({r \in Rewards : rpc[r] # "idle"})

MayStart == Started < MaxOps

\* ------------------------------------------------------------------ updateCurrencyBalance
\* the call returns or throws: record the outcome
UpdFinish(p, result) ==
  /\ upc' = [upc EXCEPT ![p] = "done"]
  /\ ures' = [ures EXCEPT ![p] = result]

\* a command of the call reaches the store and leaves the table as newStore
UpdSend(p, command, newStore) ==
  /\ usent' = [usent EXCEPT ![p] = Append(@, command)]
  /\ store' = newStore
  /\ uapplied' = [uapplied EXCEPT ![p] = @ \/ Balances(newStore) # Balances(store)]

\* lines 180-185: input validation, before anything is sent; then the call
\* takes its timestamp
\* 'amountToAdd < 0': zero is let through
ValidAmountStrict(amountToAdd) == ~(amountToAdd < 0)

ValidAmount(amountToAdd) == ~(amountToAdd <= 0)

ValidCurrency(currency) == ~(currency = Blank \/ Trim(currency) = Blank)

\* Callers are interchangeable: they are numbered in the order of their calls.
UpdEnter(p, userId, currency, amountToAdd) ==
  /\ uarg' = [uarg EXCEPT ![p] =
                [userId |-> userId, currency |-> currency, amount |-> amountToAdd]]
  /\ utime' = [utime EXCEPT ![p] =
                  IF ValidAmount(amountToAdd) /\ ValidCurrency(currency) THEN now ELSE @]
  /\ IF ~ValidAmount(amountToAdd)
     THEN UpdFinish(p, Failure(<<PhraseAmountPositive>>))
     ELSE IF ~ValidCurrency(currency)
     THEN UpdFinish(p, Failure(<<PhraseCurrencyEmpty>>))
     ELSE upc' = [upc EXCEPT ![p] = "first"] /\ UNCHANGED ures
  /\ UNCHANGED <<store, store0, usent, uapplied, ukept>>

\* the caller's slot is free and the callers before it have started
SlotFree(p) ==
  /\ upc[p] = "idle" /\ apc[p] = "idle"
  /\ \A q \in Callers : q < p => (upc[q] # "idle" \/ apc[q] # "idle")

\* a direct call of updateCurrencyBalance
UpdCall(p, userId, currency, amountToAdd) ==
  /\ SlotFree(p)
  /\ MayStart
  /\ UpdEnter(p, userId, currency, amountToAdd)
  /\ UNCHANGED <<linkVars, clearVars, loadVars, rewardVars, adminVars, clockVars, validatorVars>>

\* lines 200-211: first attempt, conditioned on the item and its currencyMap
UpdFirst(p) ==
  /\ upc[p] = "first"
  /\ LET u == uarg[p].userId
         item == store[u]
     IN IF MainCondition(item)
        THEN LET new == SetUpdatedAt(AddExpression(item, uarg[p].currency, uarg[p].amount),
                                      utime[p])
                 attributes == ReturnValues(new)
             IN /\ UpdSend(p, "UpdateMain", [store EXCEPT ![u] = new])
                /\ IF attributes.exists
                   THEN UpdFinish(p, Success(attributes))
                   ELSE UpdFinish(p, Failure(<<PhraseCouldNotUpdate, PhraseNoAttributes1>>))
        ELSE /\ UpdSend(p, "UpdateMain", store)
             /\ upc' = [upc EXCEPT ![p] = "reread"]
             /\ UNCHANGED ures
  /\ UNCHANGED <<store0, uarg, utime, ukept, linkVars, clearVars, loadVars, rewardVars, adminVars, clockVars, validatorVars>>

\* lines 256-261: the first attempt fails for another reason than its condition
UpdFirstFault(p) ==
  /\ upc[p] = "first"
  /\ UpdSend(p, "UpdateMain", store)
  /\ UpdFinish(p, Failure(<<PhraseCouldNotUpdate, PhraseStoreDown>>))
  /\ UNCHANGED <<store0, uarg, utime, ukept, linkVars, clearVars, loadVars, rewardVars, adminVars, clockVars, validatorVars>>

\* the check is skipped
UserMissingNever(userCheck) == FALSE

\* line 214: !userCheck
UserMissing(userCheck) == ~userCheck.exists

\* lines 213-218: re-read of the item
UpdReread(p) ==
  /\ upc[p] = "reread"
  /\ UpdSend(p, "Get", store)
  /\ IF UserMissing(store[uarg[p].userId])
     THEN UpdFinish(p, Failure(<<PhraseUserNotFound>>))
     ELSE upc' = [upc EXCEPT ![p] = "heal"] /\ UNCHANGED ures
  /\ UNCHANGED <<store0, uarg, utime, ukept, linkVars, clearVars, loadVars, rewardVars, adminVars, clockVars, validatorVars>>

\* lines 64-67 under line 213: getUserById throws, outside the inner try
UpdRereadFault(p) ==
  /\ upc[p] = "reread"
  /\ UpdSend(p, "Get", store)
  /\ UpdFinish(p, Failure(<<PhraseCouldNotRetrieve, PhraseStoreDown>>))
  /\ UNCHANGED <<store0, uarg, utime, ukept, linkVars, clearVars, loadVars, rewardVars, adminVars, clockVars, validatorVars>>

\* lines 222-232 and 247-253: the heal write
UpdHeal(p) ==
  /\ upc[p] = "heal"
  /\ LET u == uarg[p].userId
         item == store[u]
     IN IF UserExistsCondition(item)
        THEN /\ UpdSend(p, "UpdateInit",
                     [store EXCEPT ![u] = SetUpdatedAt(InitMapExpression(item), utime[p])])
             /\ upc' = [upc EXCEPT ![p] = "retry"]
             /\ ukept' = [ukept EXCEPT ![p] =
                            \E c \in CurrencyInputs : BalanceOf(item, c) > 0]
             /\ UNCHANGED ures
        ELSE /\ UpdSend(p, "UpdateInit", store)
             /\ UpdFinish(p, Failure(<<PhraseCouldNotBeUpdated>>))
             /\ UNCHANGED ukept
  /\ UNCHANGED <<store0, uarg, utime, linkVars, clearVars, loadVars, rewardVars, adminVars, clockVars, validatorVars>>

\* lines 247-254: the heal write fails for another reason than its condition
UpdHealFault(p) ==
  /\ upc[p] = "heal"
  /\ UpdSend(p, "UpdateInit", store)
  /\ UpdFinish(p, Failure(<<PhraseFailedAfterInit, PhraseStoreDown>>))
  /\ UNCHANGED <<store0, uarg, utime, ukept, linkVars, clearVars, loadVars, rewardVars, adminVars, clockVars, validatorVars>>

\* lines 234-255: the retry, conditioned on the item only.  ADD on a path
\* whose parent map is missing is rejected by the store as invalid.
UpdRetry(p) ==
  /\ upc[p] = "retry"
  /\ LET u == uarg[p].userId
         item == store[u]
     IN IF ~UserExistsCondition(item)
        THEN /\ UpdSend(p, "UpdateRetry", store)
             /\ UpdFinish(p, Failure(<<PhraseCouldNotBeUpdated>>))
        ELSE IF ~item.hasMap
        THEN /\ UpdSend(p, "UpdateRetry", store)
             /\ UpdFinish(p, Failure(<<PhraseFailedAfterInit, PhraseInvalidPath>>))
        ELSE LET new == SetUpdatedAt(AddExpression(item, uarg[p].currency, uarg[p].amount),
                                      utime[p])
                 attributes == ReturnValues(new)
             IN /\ UpdSend(p, "UpdateRetry", [store EXCEPT ![u] = new])
                /\ IF attributes.exists
                   THEN UpdFinish(p, Success(attributes))
                   ELSE UpdFinish(p, Failure(<<PhraseFailedAfterInit, PhraseNoAttributesRetry>>))
  /\ UNCHANGED <<store0, uarg, utime, ukept, linkVars, clearVars, loadVars, rewardVars, adminVars, clockVars, validatorVars>>

UpdRetryFault(p) ==
  /\ upc[p] = "retry"
  /\ UpdSend(p, "UpdateRetry", store)
  /\ UpdFinish(p, Failure(<<PhraseFailedAfterInit, PhraseStoreDown>>))
  /\ UNCHANGED <<store0, uarg, utime, ukept, linkVars, clearVars, loadVars, rewardVars, adminVars, clockVars, validatorVars>>

\* ------------------------------------------------------------------ linkWallet
\* lines 31-41: PutCommand with Item {userId, walletAddress, createdAt,
\* updatedAt}: the item is replaced as a whole, so it has no currencyMap
PutUser(st, userId, walletAddress) ==
  [st EXCEPT ![userId] = [Item(walletAddress, FALSE, EmptyMap) EXCEPT
                            !.createdAt = now, !.updatedAt = now]]

\* lines 25-45: what a call of UserStore.linkWallet returns or throws
LinkWalletResult(userId, walletAddress) ==
  IF ~isValidEthereumAddress(walletAddress)
  THEN Failure(<<PhraseInvalidWallet>>)
  ELSE Success(PutUser(store, userId, walletAddress)[userId])

\* lines 25-45: the call and its Put
LinkWalletCall(userId, walletAddress) ==
  /\ links' = Append(links, LinkWalletResult(userId, walletAddress))
  /\ store' = IF isValidEthereumAddress(walletAddress)
              THEN PutUser(store, userId, walletAddress) ELSE store

\* a direct call of UserStore.linkWallet
LinkWallet(userId, walletAddress) ==
  /\ LinkOps < NumLinks
  /\ MayStart
  /\ LinkWalletCall(userId, walletAddress)
  /\ UNCHANGED <<plink, store0, updVars, clearVars, loadVars, rewardVars, adminVars, clockVars, validatorVars>>

\* lines 46-49: the Put fails
LinkWalletFault(userId, walletAddress) ==
  /\ LinkOps < NumLinks
  /\ MayStart
  /\ isValidEthereumAddress(walletAddress)
  /\ links' = Append(links, Failure(<<PhraseCouldNotLink, PhraseStoreDown>>))
  /\ UNCHANGED <<plink, store, store0, updVars, clearVars, loadVars, rewardVars, adminVars, clockVars, validatorVars>>

\* ------------------------------------------------------------------ clearAllUsers
ClearBatchSize == 25

\* lines 136-153 (getAllUsers, lines 105-131): the scan
ClearScan(k) ==
  /\ cpc[k] = "idle"
  /\ MayStart
  /\ LET found == {u \in Users : store[u].exists}
     IN /\ cscan' = [cscan EXCEPT ![k] = found]
        /\ cpc' = [cpc EXCEPT ![k] = IF found = {} THEN "done" ELSE "delete"]
  /\ UNCHANGED <<storeVars, updVars, linkVars, loadVars, rewardVars, adminVars, clockVars, validatorVars>>

\* lines 137-142: the scan fails and the run gives up
ClearScanFault(k) ==
  /\ cpc[k] = "idle"
  /\ MayStart
  /\ cpc' = [cpc EXCEPT ![k] = "done"]
  /\ UNCHANGED <<cscan, storeVars, updVars, linkVars, loadVars, rewardVars, adminVars, clockVars, validatorVars>>

\* lines 156-175: one BatchWriteCommand of at most 25 DeleteRequests
ClearBatch(k) ==
  /\ cpc[k] = "delete"
  /\ \E batch \in SUBSET cscan[k] :
        /\ batch # {}
        /\ Cardinality(batch) <= ClearBatchSize
        /\ Cardinality(batch) = ClearBatchSize \/ batch = cscan[k]
        /\ store' = [u \in Users |-> IF u \in batch THEN NoItem ELSE store[u]]
        /\ cscan' = [cscan EXCEPT ![k] = @ \ batch]
        /\ cpc' = [cpc EXCEPT ![k] = IF cscan[k] = batch THEN "done" ELSE "delete"]
  /\ UNCHANGED <<store0, updVars, linkVars, loadVars, rewardVars, adminVars, clockVars, validatorVars>>

\* lines 170-174: a batch fails and the run stops
ClearBatchFault(k) ==
  /\ cpc[k] = "delete"
  /\ cpc' = [cpc EXCEPT ![k] = "done"]
  /\ UNCHANGED <<cscan, storeVars, updVars, linkVars, loadVars, rewardVars, adminVars, clockVars, validatorVars>>

\* ------------------------------------------------------------------ GET /load
PhraseMissingUserId == "Missing required query parameter: userId"
PhraseLoadNotFound == "User with ID ${userId} not found."
PhraseLoadFailed == "Failed to process request for user ${userId}."

Respond(code, status, message, details, data) ==
  [code |-> code, status |-> status, message |-> message, details |-> details,
   data |-> data]

\* the addresses ethers.Wallet.createRandom() can produce
GeneratedAddresses == {AddrA, AddrB}

LoadFinish(l, response) ==
  /\ lpc' = [lpc EXCEPT ![l] = "done"]
  /\ lres' = [lres EXCEPT ![l] = response]

\* cryptoController.ts lines 217-229; the requests are interchangeable and
\* are numbered in the order of their arrival
LoadStart(l, userId) ==
  /\ lpc[l] = "idle"
  /\ \A m \in Loaders : m < l => lpc[m] # "idle"
  /\ MayStart
  /\ luser' = [luser EXCEPT ![l] = userId]
  /\ IF userId = ""
     THEN LoadFinish(l, Respond(400, "error", <<PhraseMissingUserId>>, <<>>, NoItem))
     ELSE lpc' = [lpc EXCEPT ![l] = "read"] /\ UNCHANGED lres
  /\ UNCHANGED <<storeVars, updVars, linkVars, clearVars, rewardVars, adminVars, clockVars, validatorVars>>

\* lines 233-257: fetch the user, answer or go on to generate a wallet
LoadRead(l) ==
  /\ lpc[l] = "read"
  /\ LET user == store[luser[l]]
     IN IF ~user.exists
        THEN LoadFinish(l, Respond(404, "error", <<PhraseLoadNotFound>>, <<>>, NoItem))
        ELSE IF user.walletAddress # Blank /\ Trim(user.walletAddress) # Blank
        THEN LoadFinish(l, Respond(200, "success", <<>>, <<>>, user))
        ELSE lpc' = [lpc EXCEPT ![l] = "write"] /\ UNCHANGED lres
  /\ UNCHANGED <<luser, storeVars, updVars, linkVars, clearVars, rewardVars, adminVars, clockVars, validatorVars>>

\* lines 271-278 after a failed getUserById
LoadReadFault(l) ==
  /\ lpc[l] = "read"
  /\ LoadFinish(l, Respond(500, "error", <<PhraseLoadFailed>>,
                           <<PhraseCouldNotRetrieve, PhraseStoreDown>>, NoItem))
  /\ UNCHANGED <<luser, storeVars, updVars, linkVars, clearVars, rewardVars, adminVars, clockVars, validatorVars>>

\* lines 256-269: generate an address and store it through linkWallet
LoadWrite(l) ==
  /\ lpc[l] = "write"
  /\ \E newAddress \in GeneratedAddresses :
        IF ~isValidEthereumAddress(newAddress)
        THEN /\ LoadFinish(l, Respond(500, "error", <<PhraseLoadFailed>>,
                                      <<PhraseInvalidWallet>>, NoItem))
             /\ UNCHANGED store
        ELSE /\ store' = PutUser(store, luser[l], newAddress)
             /\ LoadFinish(l, Respond(200, "success", <<>>, <<>>, store'[luser[l]]))
  /\ UNCHANGED <<luser, store0, updVars, linkVars, clearVars, rewardVars, adminVars, clockVars, validatorVars>>

\* lines 271-278 after a failed linkWallet
LoadWriteFault(l) ==
  /\ lpc[l] = "write"
  /\ LoadFinish(l, Respond(500, "error", <<PhraseLoadFailed>>,
                           <<PhraseCouldNotLink, PhraseStoreDown>>, NoItem))
  /\ UNCHANGED <<luser, storeVars, updVars, linkVars, clearVars, rewardVars, adminVars, clockVars, validatorVars>>

\* ------------------------------------------------------------------ BlockchainService
LowerHex == {"a", "b", "c", "d", "e", "f"}
UpperHex == {"A", "B", "C", "D", "E", "F"}

\* the first test address of EIP-55, 0x5aAeb6053F3E94C9b9A09f33669435E7Ef1BeAed,
\* and the same address with one letter in the other case
AddrChecksum ==
  <<"0", "x", "5", "a", "A", "e", "b", "6", "0", "5", "3", "F", "3", "E", "9", "4", "C", "9",
    "b", "9", "A", "0", "9", "f", "3", "3", "6", "6", "9", "4", "3", "5", "E", "7", "E", "f",
    "1", "B", "e", "A", "e", "d">>
AddrBadChecksum == [AddrChecksum EXCEPT ![5] = "a"]

\* the mixed-case addresses of the model whose EIP-55 checksum is right
ChecksummedAddresses == {AddrChecksum}

\* part_004 lines 208-210: ethers.utils.isAddress; the 0x prefix is optional
\* and a mixed-case address must carry its checksum
isValidAddress(address) ==
  LET prefixed == Len(address) >= 2 /\ address[1] = "0" /\ address[2] = "x"
      body == IF prefixed THEN Drop(address, 2) ELSE address
      chars == {body[i] : i \in 1..Len(body)}
  IN /\ Len(body) = AddressHexLen
     /\ chars \subseteq HexChars
     /\ \/ chars \cap LowerHex = {}
        \/ chars \cap UpperHex = {}
        \/ address \in ChecksummedAddresses

DefaultDecimals == 18

\* an error object: its code (empty when it has none) and its message
Err(code, message) == [code |-> code, message |-> message]

PhraseNoContract == "No contract deployed at address ${tokenAddress}"
PhraseNotERC20 == "Token does not implement ERC20 standard properly"
PhraseCheckERC20 ==
  "Failed to check balance: Contract at ${tokenAddress} doesn't support the ERC20 standard properly"
PhraseCheckFailed == "Failed to check admin balance: "
PhraseInsufficientBalance == "Insufficient token balance in admin wallet"
PhraseInvalidContract == "Invalid token contract at ${tokenAddress}"
PhraseTransferERC20 ==
  "Token transfer failed: Contract at ${tokenAddress} doesn't support the ERC20 standard properly"
PhraseTransferFailed == "Token transfer failed: "
PhraseRpc == "rpc request failed"
PhraseReverted == "transaction failed"
PhraseUnderflow == "fractional component exceeds decimals"
PhraseInvalidDecimal == "invalid decimal value"
PhraseTokenInfoFailed == "Failed to get token information"
PhraseUnresolved == "resolver or addr is not configured for ENS name"

NeedleERC20 == "doesn't support the ERC20 standard"
NeedleNoContract == "No contract deployed"
NeedleRetrieve == "Could not retrieve user"
NeedleInsufficient == "Insufficient"
NeedleUserNotFound == "User with ID ${userId} not found"
NeedleAmountPositive == "Amount must be positive"
NeedleCurrencyEmpty == "Currency symbol cannot be empty"
NeedlePositive == "positive"

PhraseInsufficientTokens == "Insufficient tokens in admin wallet"

\* whether the needle occurs in the phrase, read off the two texts
PhraseContains(phrase, needle) ==
  \/ needle = NeedleERC20 /\ phrase \in {PhraseCheckERC20, PhraseTransferERC20}
  \/ needle = NeedleNoContract /\ phrase = PhraseNoContract
  \/ needle = NeedleRetrieve /\ phrase = PhraseCouldNotRetrieve
  \/ needle = NeedleInsufficient
       /\ phrase \in {PhraseInsufficientBalance, PhraseInsufficientTokens}
  \/ needle = NeedleUserNotFound
       /\ phrase \in {PhraseUserNotFound, "User with ID ${userId} not found or wallet not linked"}
  \/ needle = NeedleCurrencyEmpty /\ phrase = PhraseCurrencyEmpty
  \/ needle = NeedlePositive
       /\ phrase \in {PhraseAmountPositive, "Amount must be a positive number",
                      "Amount must be a positive number."}

\* String.prototype.includes on a message
Includes(message, needle) ==
  \E i \in 1..Len(message) : PhraseContains(message[i], needle)

\* every error is rethrown as 'Failed to check admin balance', its cause dropped
WrapBalanceErrorPlain(error) == Err("", <<PhraseCheckFailed>>)

\* part_004 lines 85-91: the catch of hasAdminSufficientBalance
WrapBalanceError(error) ==
  IF error.code = "CALL_EXCEPTION" THEN Err("", <<PhraseCheckERC20>>)
  ELSE Err("", <<PhraseCheckFailed>> \o error.message)

\* part_004 lines 150-157: the catch of transferTokens
WrapTransferError(error) ==
  IF error.code = "CALL_EXCEPTION" THEN Err("", <<PhraseTransferERC20>>)
  ELSE Err("", <<PhraseTransferFailed>> \o error.message)

\* what ethers.utils.parseUnits throws for a value it does not take
ParseUnitsError(amount) ==
  IF IsDecimalLiteral(amount) /\ Head(amount) # "+"
  THEN Err("NUMERIC_FAULT", <<PhraseUnderflow>>)
  ELSE Err("INVALID_ARGUMENT", <<PhraseInvalidDecimal>>)

\* what the chain can answer
CodeOutcomes == {"0x", "0x60"}
BalanceOutcomes == {Big(0, 0), Big(2000, 0), Big(2, 20)}
DecimalsOutcomes == {[ok |-> FALSE, value |-> 0], [ok |-> TRUE, value |-> 2]}
ErrorCodes == {"CALL_EXCEPTION", "NETWORK_ERROR"}

\* 'let decimals = 18; try { decimals = await tokenContract.decimals() } catch {}'
DecimalsOrDefault(outcome) == IF outcome.ok THEN outcome.value ELSE DefaultDecimals

\* ------------------------------------------------------------------ GET /reward
PhraseMissingParams == "Missing required parameters: token, amount, userId"
PhraseInvalidToken == "Invalid token address"
PhraseAmountNumber == "Amount must be a positive number"
PhraseRewardNotFound == "User with ID ${userId} not found or wallet not linked"
PhraseInvalidTokenContract == "Invalid token contract at ${token}: "
PhraseOperationFailed == "Operation failed: "
PhraseTransferDefault == "Failed to transfer tokens"
PhraseTransferred == "Tokens successfully transferred"

NoData == [recipient |-> Blank, amount |-> Blank, name |-> "", symbol |-> "",
           transactionHash |-> "", blockNumber |-> 0]

\* the handlers of cryptoController.ts send status and message, never details
Reply(code, status, message) ==
  [code |-> code, status |-> status, message |-> message, details |-> <<>>,
   hasErrors |-> FALSE, data |-> NoData]

\* validationMiddleware.ts lines 32-41: the body carries 'errors', no message
ReplyErrors == [code |-> 400, status |-> "error", message |-> <<>>, details |-> <<>>,
                hasErrors |-> TRUE, data |-> NoData]

\* validationMiddleware.ts lines 6-31
MiddlewareAccepts(token, amount, userId) ==
  /\ token # Blank /\ isValidAddress(token)
  /\ amount # Blank
  /\ ~(IsNaN(ParseFloat(amount)) \/ LessOrEqualZero(ParseFloat(amount)))
  /\ userId # ""

\* cryptoController.ts lines 66-69
IsTokenContractError(error) ==
  Includes(error.message, NeedleERC20) \/ Includes(error.message, NeedleNoContract)

\* cryptoController.ts lines 105-123: the catch of rewardTokens
RewardCatch(error) ==
  IF \/ Includes(error.message, NeedleERC20)
     \/ Includes(error.message, NeedleNoContract)
     \/ Includes(error.message, NeedleRetrieve)
  THEN Reply(400, "error", <<PhraseOperationFailed>> \o error.message)
  ELSE Reply(500, "error",
             IF error.message = <<>> THEN <<PhraseTransferDefault>> ELSE error.message)

RewardFinish(r, reply) ==
  /\ rpc' = [rpc EXCEPT ![r] = "done"]
  /\ rres' = [rres EXCEPT ![r] = reply]

RewardGoto(r, position) ==
  /\ rpc' = [rpc EXCEPT ![r] = position]
  /\ UNCHANGED rres

RewardLog(r, call) == rlog' = [rlog EXCEPT ![r] = Append(@, call)]

othersOfReward ==
  <<storeVars, updVars, linkVars, clearVars, loadVars, adminVars, clockVars, validatorVars>>

\* lines 12-39, after the middleware of the route
RewardStart(r, token, amount, userId) ==
  /\ rpc[r] = "idle"
  /\ MayStart
  /\ rq' = [rq EXCEPT ![r] = [token |-> token, amount |-> amount, userId |-> userId]]
  /\ IF ~MiddlewareAccepts(token, amount, userId)
     THEN RewardFinish(r, ReplyErrors)
     ELSE IF token = Blank \/ amount = Blank \/ userId = ""
     THEN RewardFinish(r, Reply(400, "error", <<PhraseMissingParams>>))
     ELSE IF ~isValidAddress(token)
     THEN RewardFinish(r, Reply(400, "error", <<PhraseInvalidToken>>))
     ELSE IF IsNaN(ParseFloat(amount)) \/ LessOrEqualZero(ParseFloat(amount))
     THEN RewardFinish(r, Reply(400, "error", <<PhraseAmountNumber>>))
     ELSE RewardGoto(r, "getUser")
  /\ UNCHANGED <<rctx, rloc, rlog, othersOfReward>>

\* lines 42-49
RewardGetUser(r) ==
  /\ rpc[r] = "getUser"
  /\ RewardLog(r, "getUserById")
  /\ LET user == store[rq[r].userId]
     IN IF ~user.exists
        THEN /\ RewardFinish(r, Reply(404, "error", <<PhraseRewardNotFound>>))
             /\ UNCHANGED rloc
        ELSE /\ RewardGoto(r, "hbCode")
             /\ rloc' = [rloc EXCEPT ![r].user = user]
  /\ rctx' = [rctx EXCEPT ![r] = "controller"]
  /\ UNCHANGED <<rq, othersOfReward>>

\* getUserById throws (User.ts lines 64-67)
RewardGetUserFault(r) ==
  /\ rpc[r] = "getUser"
  /\ RewardLog(r, "getUserById")
  /\ RewardFinish(r, RewardCatch(Err("", <<PhraseCouldNotRetrieve, PhraseStoreDown>>)))
  /\ UNCHANGED <<rq, rctx, rloc, othersOfReward>>

\* an error leaves the try block of hasAdminSufficientBalance
HbThrows(r, error) ==
  LET wrapped == WrapBalanceError(error)
  IN IF rctx[r] = "controller"
     THEN IF IsTokenContractError(wrapped)
          THEN RewardFinish(r, Reply(400, "error",
                                     <<PhraseInvalidTokenContract>> \o wrapped.message))
          ELSE RewardFinish(r, RewardCatch(wrapped))
     ELSE RewardFinish(r, RewardCatch(WrapTransferError(wrapped)))

\* part_004 lines 59-63
HbGetCode(r, code) ==
  /\ rpc[r] = "hbCode"
  /\ RewardLog(r, "getCode")
  /\ rloc' = [rloc EXCEPT ![r].code = code]
  /\ IF code = "0x"
     THEN HbThrows(r, Err("", <<PhraseNoContract>>))
     ELSE RewardGoto(r, "hbBalance")
  /\ UNCHANGED <<rq, rctx, othersOfReward>>

HbGetCodeFault(r) ==
  /\ rpc[r] = "hbCode"
  /\ RewardLog(r, "getCode")
  /\ HbThrows(r, Err("NETWORK_ERROR", <<PhraseRpc>>))
  /\ UNCHANGED <<rq, rctx, rloc, othersOfReward>>

\* part_004 lines 66-68
HbBalanceOf(r, balance) ==
  /\ rpc[r] = "hbBalance"
  /\ RewardLog(r, "balanceOf")
  /\ rloc' = [rloc EXCEPT ![r].balance = balance]
  /\ RewardGoto(r, "hbDecimals")
  /\ UNCHANGED <<rq, rctx, othersOfReward>>

\* part_004 lines 69-72: whatever balanceOf throws is replaced by a plain Error
HbBalanceOfFault(r, code) ==
  /\ rpc[r] = "hbBalance"
  /\ RewardLog(r, "balanceOf")
  /\ HbThrows(r, Err("", <<PhraseNotERC20>>))
  /\ UNCHANGED <<rq, rctx, rloc, othersOfReward>>

\* the answer is not looked at
RejectsInsufficientNever(hasSufficientBalance) == FALSE

\* cryptoController.ts line 59, part_004 line 127: if (!hasSufficientBalance)
RejectsInsufficient(hasSufficientBalance) == ~hasSufficientBalance

\* part_004 lines 74-84, and what the caller does with the answer
\* (cryptoController.ts lines 59-65, part_004 lines 127-129)
HbDecimals(r, outcome) ==
  /\ rpc[r] = "hbDecimals"
  /\ RewardLog(r, "decimals")
  /\ LET decimals == DecimalsOrDefault(outcome)
         amountInWei == ParseUnits(rq[r].amount, decimals)
     IN IF ~ParseUnitsOk(rq[r].amount, decimals)
        THEN HbThrows(r, ParseUnitsError(rq[r].amount)) /\ UNCHANGED rloc
        ELSE LET hasSufficientBalance == Gte(rloc[r].balance, amountInWei)
                 answer == IF hasSufficientBalance THEN "yes" ELSE "no"
             IN /\ rloc' = IF rctx[r] = "controller"
                           THEN [rloc EXCEPT ![r].checked = amountInWei,
                                             ![r].sufficient = answer]
                           ELSE [rloc EXCEPT ![r].checked = amountInWei,
                                             ![r].recheck = answer]
                /\ IF ~RejectsInsufficient(hasSufficientBalance)
                   THEN RewardGoto(r, IF rctx[r] = "controller" THEN "ttDecimals"
                                      ELSE "ttCode")
                   ELSE IF rctx[r] = "controller"
                   THEN RewardFinish(r, Reply(400, "error", <<PhraseInsufficientTokens>>))
                   ELSE RewardFinish(r, RewardCatch(WrapTransferError(
                                           Err("", <<PhraseInsufficientBalance>>))))
  /\ UNCHANGED <<rq, rctx, othersOfReward>>

\* cryptoController.ts lines 80-84, part_004 lines 108-125
TtDecimals(r, outcome) ==
  /\ rpc[r] = "ttDecimals"
  /\ rlog' = [rlog EXCEPT ![r] = @ \o <<"transferTokens", "decimals">>]
  /\ LET decimals == DecimalsOrDefault(outcome)
     IN IF ~ParseUnitsOk(rq[r].amount, decimals)
        THEN /\ RewardFinish(r, RewardCatch(WrapTransferError(
                                   ParseUnitsError(rq[r].amount))))
             /\ UNCHANGED <<rloc, rctx>>
        ELSE /\ rloc' = [rloc EXCEPT ![r].amountInWei = ParseUnits(rq[r].amount, decimals)]
             /\ rctx' = [rctx EXCEPT ![r] = "transfer"]
             /\ RewardGoto(r, "hbCode")
  /\ UNCHANGED <<rq, othersOfReward>>

\* the code read is not looked at
NoCodeAtNever(code) == FALSE

\* part_004 line 135: code === '0x'
NoCodeAt(code) == code = "0x"

\* part_004 lines 132-141
TtGetCode(r, code) ==
  /\ rpc[r] = "ttCode"
  /\ RewardLog(r, "getCode")
  /\ rloc' = [rloc EXCEPT ![r].recode = code]
  /\ IF NoCodeAt(code)
     THEN RewardFinish(r, RewardCatch(WrapTransferError(Err("", <<PhraseInvalidContract>>))))
     ELSE RewardGoto(r, "ttTransfer")
  /\ UNCHANGED <<rq, rctx, othersOfReward>>

TtGetCodeFault(r) ==
  /\ rpc[r] = "ttCode"
  /\ RewardLog(r, "getCode")
  /\ RewardFinish(r, RewardCatch(WrapTransferError(Err("", <<PhraseInvalidContract>>))))
  /\ UNCHANGED <<rq, rctx, rloc, othersOfReward>>

\* part_004 line 144: the transaction is sent to the recipient
TtTransfer(r) ==
  /\ rpc[r] = "ttTransfer"
  /\ isValidAddress(rloc[r].user.walletAddress)
  /\ RewardLog(r, "transfer")
  /\ RewardGoto(r, "ttWait")
  /\ UNCHANGED <<rq, rctx, rloc, othersOfReward>>

TtTransferFault(r, code) ==
  /\ rpc[r] = "ttTransfer"
  /\ isValidAddress(rloc[r].user.walletAddress)
  /\ RewardLog(r, "transfer")
  /\ RewardFinish(r, RewardCatch(WrapTransferError(Err(code, <<PhraseRpc>>))))
  /\ UNCHANGED <<rq, rctx, rloc, othersOfReward>>

\* part_004 line 144: the Contract object resolves its address argument before
\* it builds the transaction; a recipient that is no address is taken for an
\* ENS name, its resolution fails and nothing is sent
TtTransferUnresolved(r) ==
  /\ rpc[r] = "ttTransfer"
  /\ ~isValidAddress(rloc[r].user.walletAddress)
  /\ RewardFinish(r, RewardCatch(WrapTransferError(
                        Err("INVALID_ARGUMENT", <<PhraseUnresolved>>))))
  /\ UNCHANGED <<rq, rctx, rloc, rlog, othersOfReward>>

\* part_004 lines 147-149
TtWait(r) ==
  /\ rpc[r] = "ttWait"
  /\ RewardLog(r, "wait")
  /\ RewardGoto(r, "tokenInfo")
  /\ UNCHANGED <<rq, rctx, rloc, othersOfReward>>

\* the transaction reverted (CALL_EXCEPTION) or the wait failed
TtWaitFault(r, code) ==
  /\ rpc[r] = "ttWait"
  /\ RewardLog(r, "wait")
  /\ RewardFinish(r, RewardCatch(WrapTransferError(
                        Err(code, <<IF code = "CALL_EXCEPTION" THEN PhraseReverted
                                    ELSE PhraseRpc>>))))
  /\ UNCHANGED <<rq, rctx, rloc, othersOfReward>>

\* a failing metadata call makes the whole of getTokenInfo fail
getTokenInfoStrict(nameOk, symbolOk, decimalsOutcome) ==
  [ok |-> nameOk /\ symbolOk /\ decimalsOutcome.ok,
   name |-> "Token", symbol |-> "TKN", decimals |-> decimalsOutcome.value]

\* part_004 lines 165-201: each of name(), symbol() and decimals() has its
\* own try/catch and keeps its default when the call fails
getTokenInfo(nameOk, symbolOk, decimalsOutcome) ==
  [ok |-> TRUE,
   name |-> IF nameOk THEN "Token" ELSE "Unknown Token",
   symbol |-> IF symbolOk THEN "TKN" ELSE "UNKNOWN",
   decimals |-> DecimalsOrDefault(decimalsOutcome)]

\* cryptoController.ts lines 87-104
RewardTokenInfo(r, nameOk, symbolOk, decimalsOutcome) ==
  /\ rpc[r] = "tokenInfo"
  /\ RewardLog(r, "getTokenInfo")
  /\ LET tokenInfo == getTokenInfo(nameOk, symbolOk, decimalsOutcome)
     IN /\ rloc' = [rloc EXCEPT
                      ![r].metadata = [name |-> nameOk, symbol |-> symbolOk,
                                       decimals |-> decimalsOutcome],
                      ![r].tokenInfo = tokenInfo]
        /\ IF tokenInfo.ok
           THEN RewardFinish(r, [code |-> 200, status |-> "success",
                                 message |-> <<PhraseTransferred>>, details |-> <<>>,
                                 hasErrors |-> FALSE,
                                 data |-> [recipient |-> rloc[r].user.walletAddress,
                                           amount |-> rq[r].amount,
                                           name |-> tokenInfo.name,
                                           symbol |-> tokenInfo.symbol,
                                           transactionHash |-> "0xtx", blockNumber |-> 1]])
           ELSE RewardFinish(r, RewardCatch(Err("", <<PhraseTokenInfoFailed>>)))
  /\ UNCHANGED <<rq, rctx, othersOfReward>>

NextReward ==
  \/ \E r \in Rewards, t \in TokenInputs, a \in AmountStrings, u \in UserIdInputs :
        RewardStart(r, t, a, u)
  \/ \E r \in Rewards : RewardGetUser(r)
  \/ \E r \in Rewards : RewardGetUserFault(r)
  \/ \E r \in Rewards, code \in CodeOutcomes : HbGetCode(r, code)
  \/ \E r \in Rewards : HbGetCodeFault(r)
  \/ \E r \in Rewards, b \in BalanceOutcomes : HbBalanceOf(r, b)
  \/ \E r \in Rewards, code \in ErrorCodes : HbBalanceOfFault(r, code)
  \/ \E r \in Rewards, d \in DecimalsOutcomes : HbDecimals(r, d)
  \/ \E r \in Rewards, d \in DecimalsOutcomes : TtDecimals(r, d)
  \/ \E r \in Rewards, code \in CodeOutcomes : TtGetCode(r, code)
  \/ \E r \in Rewards : TtGetCodeFault(r)
  \/ \E r \in Rewards : TtTransfer(r)
  \/ \E r \in Rewards, code \in ErrorCodes : TtTransferFault(r, code)
  \/ \E r \in Rewards : TtTransferUnresolved(r)
  \/ \E r \in Rewards : TtWait(r)
  \/ \E r \in Rewards, code \in ErrorCodes : TtWaitFault(r, code)
  \/ \E r \in Rewards, n \in BOOLEAN, sy \in BOOLEAN, d \in DecimalsOutcomes :
        RewardTokenInfo(r, n, sy, d)

\* ------------------------------------------------------------------ POST /link-wallet
PhraseMissingLinkParams == "Missing required parameters: userId, walletAddress"
PhraseLinked == "Wallet successfully linked to user"
PhraseLinkDefault == "Failed to link wallet"

\* an address of 40 hexadecimal digits without the 0x prefix
AddrNoPrefix == MkAddress(<<>>, "1", AddressHexLen)
LinkBodyWallets == WalletInputs \cup {AddrNoPrefix, Blank}

\* validationMiddleware.ts lines 45-59
LinkMiddlewareAccepts(userId, walletAddress) ==
  /\ userId # ""
  /\ walletAddress # Blank /\ isValidAddress(walletAddress)

\* cryptoController.ts lines 133-151: the answer to a body that is refused
\* before the store is called (NoResponse for a body that passes)
LinkValidate(userId, walletAddress) ==
  IF ~LinkMiddlewareAccepts(userId, walletAddress)
  THEN Respond(400, "error", <<>>, <<>>, NoItem)
  ELSE IF userId = "" \/ walletAddress = Blank
  THEN Respond(400, "error", <<PhraseMissingLinkParams>>, <<>>, NoItem)
  ELSE IF ~isValidAddress(walletAddress)
  THEN Respond(400, "error", <<PhraseInvalidWallet>>, <<>>, NoItem)
  ELSE NoResponse

\* cryptoController.ts lines 154-167: the answer to what linkWallet returned or threw
LinkReply(result) ==
  IF result.status = "ok"
  THEN Respond(200, "success", <<PhraseLinked>>, <<>>, result.item)
  ELSE Respond(500, "error",
               IF result.message = <<>> THEN <<PhraseLinkDefault>> ELSE result.message,
               <<>>, NoItem)

LinkAnswered(userId, walletAddress, called, reply) ==
  plink' = Append(plink, [userId |-> userId, walletAddress |-> walletAddress,
                          called |-> called, reply |-> reply])

\* cryptoController.ts lines 131-168, after the middleware of the route
PostLinkWallet(userId, walletAddress) ==
  /\ LinkOps < NumLinks
  /\ MayStart
  /\ IF LinkValidate(userId, walletAddress) # NoResponse
     THEN /\ LinkAnswered(userId, walletAddress, FALSE, LinkValidate(userId, walletAddress))
          /\ UNCHANGED <<links, store>>
     ELSE /\ LinkWalletCall(userId, walletAddress)
          /\ LinkAnswered(userId, walletAddress, TRUE,
                          LinkReply(LinkWalletResult(userId, walletAddress)))
  /\ UNCHANGED <<store0, updVars, clearVars, loadVars, rewardVars, adminVars, clockVars, validatorVars>>

\* the Put of linkWallet fails
PostLinkWalletFault(userId, walletAddress) ==
  /\ LinkOps < NumLinks
  /\ MayStart
  /\ LinkValidate(userId, walletAddress) = NoResponse
  /\ isValidEthereumAddress(walletAddress)
  /\ links' = Append(links, Failure(<<PhraseCouldNotLink, PhraseStoreDown>>))
  /\ LinkAnswered(userId, walletAddress, TRUE,
                  LinkReply(Failure(<<PhraseCouldNotLink, PhraseStoreDown>>)))
  /\ UNCHANGED <<store, store0, updVars, clearVars, loadVars, rewardVars, adminVars, clockVars, validatorVars>>

\* ------------------------------------------------------------------ POST /reward-currency
PhraseMissingFields == "Missing required fields: userId, currency, and amount."
PhraseInvalidCurrency == "Invalid currency symbol provided."
PhraseAmountPositiveNumber == "Amount must be a positive number."
PhraseRewarded == "Successfully rewarded ${amountToAdd} ${currencySymbol} to user ${userId}."
PhraseRewardCurrencyFailed == "Failed to reward currency for user ${userId}."
PhraseUnknownServerError == "Unknown server error"

\* 'Number(amount) < 0': zero is let through
RejectsAmountNegative(amount) ==
  ~isNumeric(amount) \/ (~ToNumber(amount).nan /\ ToNumber(amount).sign = -1)

\* part_003 line 30
RejectsAmount(amount) == ~isNumeric(amount) \/ LessOrEqualZero(ToNumber(amount))

\* part_003 lines 13-36: the answer to a body that fails the validation
\* (NoResponse for a body that passes)
RewardCurrencyValidate(body) ==
  IF body.userId = "" \/ Falsy(body.currency) \/ body.amount.type = "undefined"
  THEN Respond(400, "error", <<PhraseMissingFields>>, <<>>, NoItem)
  ELSE IF body.currency.type # "string" \/ Trim(body.currency.str) = Blank
  THEN Respond(400, "error", <<PhraseInvalidCurrency>>, <<>>, NoItem)
  ELSE IF RejectsAmount(body.amount)
  THEN Respond(400, "error", <<PhraseAmountPositiveNumber>>, <<>>, NoItem)
  ELSE NoResponse

\* part_003 lines 56-78: the catch of rewardCurrency
RewardCurrencyCatch(error) ==
  IF Includes(error.message, NeedleUserNotFound)
  THEN Respond(404, "error", error.message, <<>>, NoItem)
  ELSE IF \/ Includes(error.message, NeedleAmountPositive)
          \/ Includes(error.message, NeedleCurrencyEmpty)
  THEN Respond(400, "error", error.message, <<>>, NoItem)
  ELSE Respond(500, "error", <<PhraseRewardCurrencyFailed>>,
               IF error.message = <<>> THEN <<PhraseUnknownServerError>>
               ELSE error.message, NoItem)

\* part_003 lines 43-78: the answer to what updateCurrencyBalance returned or threw
RewardCurrencyReply(result) ==
  IF result.status = "ok"
  THEN Respond(200, "success", <<PhraseRewarded>>, <<>>, result.item)
  ELSE RewardCurrencyCatch(Err("", result.message))

\* part_003 lines 10-45: the request is validated, then updateCurrencyBalance
\* is called with the number and the normalized symbol
RewardCurrency(p, body) ==
  /\ SlotFree(p)
  /\ MayStart
  /\ abody' = [abody EXCEPT ![p] = body]
  /\ IF RewardCurrencyValidate(body) # NoResponse
     THEN /\ apc' = [apc EXCEPT ![p] = "done"]
          /\ ares' = [ares EXCEPT ![p] = RewardCurrencyValidate(body)]
          /\ UNCHANGED <<storeVars, updVars>>
     ELSE /\ apc' = [apc EXCEPT ![p] = "call"]
          /\ UpdEnter(p, body.userId, ToUpperCase(Trim(body.currency.str)),
                      IntegerOf(ToNumber(body.amount)))
          /\ UNCHANGED ares
  /\ UNCHANGED <<linkVars, clearVars, loadVars, rewardVars, clockVars, validatorVars>>

\* part_003 lines 45-78: updateCurrencyBalance has returned or thrown
RewardCurrencyRespond(p) ==
  /\ apc[p] = "call"
  /\ upc[p] = "done"
  /\ apc' = [apc EXCEPT ![p] = "done"]
  /\ ares' = [ares EXCEPT ![p] = RewardCurrencyReply(ures[p])]
  /\ UNCHANGED <<abody, storeVars, updVars, linkVars, clearVars, loadVars, rewardVars,
               clockVars, validatorVars>>

NextAdmin ==
  \/ \E p \in Callers, body \in BodyInputs : RewardCurrency(p, body)
  \/ \E p \in Callers : RewardCurrencyRespond(p)
  \/ \E p \in Callers : UpdFirst(p)
  \/ \E p \in Callers : UpdFirstFault(p)
  \/ \E p \in Callers : UpdReread(p)
  \/ \E p \in Callers : UpdRereadFault(p)
  \/ \E p \in Callers : UpdHeal(p)
  \/ \E p \in Callers : UpdHealFault(p)
  \/ \E p \in Callers : UpdRetry(p)
  \/ \E p \in Callers : UpdRetryFault(p)

\* ------------------------------------------------------------------ the two validators
\* the strings put to the validators: with and without the prefix, of 39, 40
\* and 41 characters, in one letter case and in both
AddressPrefixes == {<<"0", "x">>, <<>>, <<"0", "X">>}
AddressFills == {"1", "a", "A", "g"}
AddressLengths == {AddressHexLen - 1, AddressHexLen, AddressHexLen + 1}
AddressInputs ==
  {MkAddress(prefix, ch, n) : prefix \in AddressPrefixes, ch \in AddressFills,
                               n \in AddressLengths}
    \cup {AddrChecksum, AddrBadChecksum, Blank}

\* User.ts lines 99-102 and part_004 lines 208-210, on the same string
IsValid(address) ==
  /\ vres' = [address |-> address, asked |-> TRUE,
              gateway |-> isValidAddress(address),
              store |-> isValidEthereumAddress(address)]
  /\ UNCHANGED <<storeVars, updVars, linkVars, clearVars, loadVars, rewardVars, adminVars,
                 clockVars>>

NextValidator == \E address \in AddressInputs : IsValid(address)

\* ------------------------------------------------------------------ the clock
MaxClock == 2

\* time passes between two steps of the server
Tick ==
  /\ now < MaxClock
  /\ now' = now + 1
  /\ UNCHANGED <<storeVars, updVars, linkVars, clearVars, loadVars, rewardVars, adminVars,
                 validatorVars>>

\* ------------------------------------------------------------------ specifications
\* updateCurrencyBalance calls alone, on a store that answers every command
NextUpd ==
  \/ \E p \in Callers, u \in Users, c \in CurrencyInputs, a \in AmountInputs :
        UpdCall(p, u, c, a)
  \/ \E p \in Callers : UpdFirst(p)
  \/ \E p \in Callers : UpdReread(p)
  \/ \E p \in Callers : UpdHeal(p)
  \/ \E p \in Callers : UpdRetry(p)

SpecUpd == Init /\ [][NextUpd]_vars

Next ==
  \/ NextUpd
  \/ \E p \in Callers : UpdFirstFault(p)
  \/ \E p \in Callers : UpdRereadFault(p)
  \/ \E p \in Callers : UpdHealFault(p)
  \/ \E p \in Callers : UpdRetryFault(p)
  \/ \E u \in Users, w \in WalletInputs : LinkWallet(u, w)
  \/ \E u \in Users, w \in WalletInputs : LinkWalletFault(u, w)
  \/ \E k \in Clearers : ClearScan(k)
  \/ \E k \in Clearers : ClearScanFault(k)
  \/ \E k \in Clearers : ClearBatch(k)
  \/ \E k \in Clearers : ClearBatchFault(k)
  \/ \E l \in Loaders, u \in UserIdInputs : LoadStart(l, u)
  \/ \E l \in Loaders : LoadRead(l)
  \/ \E l \in Loaders : LoadReadFault(l)
  \/ \E l \in Loaders : LoadWrite(l)
  \/ \E l \in Loaders : LoadWriteFault(l)

\* the operations on the Users table, with store failures
Spec == Init /\ [][Next]_vars

NextWallet ==
  \/ Next
  \/ \E u \in UserIdInputs, w \in LinkBodyWallets : PostLinkWallet(u, w)
  \/ \E u \in UserIdInputs, w \in LinkBodyWallets : PostLinkWalletFault(u, w)

\* the same, with POST /link-wallet requests
SpecWallet == Init /\ [][NextWallet]_vars

\* GET /reward requests; a request only reads the table (one GetCommand), so
\* it is run against each initial table with nothing else writing
SpecReward == Init /\ [][NextReward]_vars

\* POST /reward-currency requests, served concurrently, with store failures
SpecAdmin == Init /\ [][NextAdmin]_vars

\* updateCurrencyBalance and linkWallet calls while the clock advances
NextTime ==
  \/ NextUpd
  \/ \E u \in Users, w \in WalletInputs : LinkWallet(u, w)
  \/ Tick

SpecTime == Init /\ [][NextTime]_vars

\* the two address validators, asked about the same strings
SpecValidator == Init /\ [][NextValidator]_vars

\* ------------------------------------------------------------------ properties
ValidCall(p) ==
  /\ upc[p] # "idle"
  /\ ValidAmount(uarg[p].amount)
  /\ ValidCurrency(uarg[p].currency)

Quiescent == \A p \in Callers : upc[p] \in {"idle", "done"}

RECURSIVE SumAmounts(_)
SumAmounts(ps) ==
  IF ps = {} THEN 0
  ELSE LET p == CHOOSE q \in ps : TRUE
       IN uarg[p].amount + SumAmounts(ps \ {p})

\* the deltas of the valid calls made for one user and one currency
SumDeltas(u, c) ==
  SumAmounts({p \in Callers : ValidCall(p) /\ uarg[p].userId = u /\ uarg[p].currency = c})

HealPath == <<"UpdateMain", "Get", "UpdateInit", "UpdateRetry">>

\* C1: concurrent updateCurrencyBalance calls with positive deltas on an
\* existing user, with nothing else touching the item: every call succeeds,
\* and once all calls have returned each balance is the initial balance (0 if
\* the currency or the container was absent) plus the sum of the deltas.
C1_NoLostUpdate ==
  /\ \A p \in Callers :
        (upc[p] = "done" /\ ValidCall(p) /\ store0[uarg[p].userId].exists)
          => ures[p].status = "ok"
  /\ Quiescent =>
        \A u \in Users, c \in CurrencyInputs :
           store0[u].exists =>
             BalanceOf(store[u], c) = BalanceOf(store0[u], c) + SumDeltas(u, c)

\* two callers healed the same fresh user, +10 and +5, and the balance is 15
C1_Witness ==
  \E p, q \in Callers :
     /\ p # q
     /\ upc[p] = "done" /\ upc[q] = "done"
     /\ uarg[p] = [userId |-> "u1", currency |-> CurP, amount |-> 10]
     /\ uarg[q] = [userId |-> "u1", currency |-> CurP, amount |-> 5]
     /\ usent[p] = HealPath /\ usent[q] = HealPath
     /\ ~store0["u1"].hasMap
     /\ ures[p].status = "ok" /\ ures[q].status = "ok"
     /\ BalanceOf(store["u1"], CurP) = 15

\* C2: a heal write that executes on an item whose currencyMap exists leaves
\* the container and every balance in it as they were.
C2_HealKeepsContainer ==
  [][\A p \in Callers :
       (upc[p] = "heal" /\ upc'[p] = "retry" /\ store[uarg[p].userId].hasMap)
         => /\ store'[uarg[p].userId].hasMap
            /\ store'[uarg[p].userId].currencyMap = store[uarg[p].userId].currencyMap]_vars

\* a heal write ran after a concurrent healer had credited a balance
C2_Witness ==
  \E p, q \in Callers :
     /\ p # q
     /\ ukept[p]
     /\ usent[q] = HealPath /\ ures[q].status = "ok"
     /\ ~store0["u1"].hasMap
     /\ BalanceOf(store["u1"], uarg[q].currency) >= uarg[q].amount

\* C8: a call with amount <= 0 or a blank currency fails with the
\* validation error, having sent nothing to the store and changed no balance.
C8_InvalidNeverSent ==
  \A p \in Callers :
     (upc[p] # "idle" /\ (uarg[p].amount <= 0 \/ Trim(uarg[p].currency) = Blank))
       => /\ upc[p] = "done"
          /\ ures[p] \in {Failure(<<PhraseAmountPositive>>), Failure(<<PhraseCurrencyEmpty>>)}
          /\ usent[p] = <<>>
          /\ ~uapplied[p]

\* a zero amount and a whitespace-only currency were both rejected
C8_Witness ==
  \E p, q \in Callers :
     /\ upc[p] = "done" /\ uarg[p].amount = 0
     /\ ures[p] = Failure(<<PhraseAmountPositive>>)
     /\ upc[q] = "done" /\ uarg[q].amount > 0 /\ uarg[q].currency = CurSpaces
     /\ ures[q] = Failure(<<PhraseCurrencyEmpty>>)
     /\ usent[p] = <<>> /\ usent[q] = <<>>

\* C9: with only updateCurrencyBalance calls running, a call for a userId
\* without an item fails with the user-not-found error, and a user absent at
\* the start stays absent.
C9_AbsentStaysAbsent ==
  /\ \A u \in Users : ~store0[u].exists => ~store[u].exists
  /\ \A p \in Callers :
        (upc[p] = "done" /\ ValidCall(p) /\ ~store0[uarg[p].userId].exists)
          => ures[p] = Failure(<<PhraseUserNotFound>>)

\* two calls for the absent user have both returned
C9_Witness ==
  /\ ~store0["u1"].exists
  /\ \E p, q \in Callers :
        /\ p # q
        /\ ValidCall(p) /\ ValidCall(q)
        /\ upc[p] = "done" /\ upc[q] = "done"
        /\ usent[p] = <<"UpdateMain", "Get">>
        /\ ures[q] = Failure(<<PhraseUserNotFound>>)

\* C10: a call that has returned an error has changed no balance.
C10_ErrorAppliesNothing ==
  \A p \in Callers :
     (upc[p] = "done" /\ ures[p].status = "error") => ~uapplied[p]

\* the heal write of a call failed at the store, and the call failed
C10_Witness ==
  \E p \in Callers :
     /\ upc[p] = "done"
     /\ usent[p] = <<"UpdateMain", "Get", "UpdateInit">>
     /\ ures[p] = Failure(<<PhraseFailedAfterInit, PhraseStoreDown>>)

\* C3: a linkWallet on an existing item and the wallet generation of GET
\* /load leave every currency balance as it was.
C3_LinkKeepsBalances ==
  [][((links' # links) \/ (\E l \in Loaders : lpc[l] = "write" /\ lpc'[l] = "done"))
       => Balances(store') = Balances(store)]_vars

TransferIndex(log) == CHOOSE i \in 1..Len(log) : log[i] = "transferTokens"
Calls(log) == {log[i] : i \in 1..Len(log)}

\* C4: transferTokens is invoked only after the lookup returned an item and
\* hasAdminSufficientBalance returned true in the same request; when it
\* returned false the answer is 400 'Insufficient...' and nothing is transferred.
C4_TransferOnlyAfterChecks ==
  \A r \in Rewards :
     /\ "transferTokens" \in Calls(rlog[r])
          => /\ rloc[r].user.exists
             /\ rloc[r].sufficient = "yes"
             /\ SubSeq(rlog[r], 1, TransferIndex(rlog[r]))
                  = <<"getUserById", "getCode", "balanceOf", "decimals", "transferTokens">>
     /\ rloc[r].sufficient = "no"
          => /\ rpc[r] = "done"
             /\ rres[r].code = 400
             /\ Includes(rres[r].message, NeedleInsufficient)
             /\ Calls(rlog[r]) \cap {"transferTokens", "transfer"} = {}

\* a request whose check answered true has gone on to submit the transfer
C4_Witness ==
  \E r \in Rewards :
     /\ rloc[r].user.exists
     /\ rloc[r].sufficient = "yes"
     /\ "transfer" \in Calls(rlog[r])

\* C5: when balanceOf fails in the check made by the controller, the answer
\* is a 400 and nothing is transferred.
C5_NonCompliantIsClientError ==
  \A r \in Rewards :
     (rpc[r] = "done" /\ rlog[r] = <<"getUserById", "getCode", "balanceOf">>)
       => rres[r].code = 400

\* C6: when getCode answers '0x' in the check made by the controller, no
\* balance is queried, nothing is transferred, and the answer is a 400 whose
\* message says that no contract is deployed (and not 'Insufficient').
C6_NoContractIsClientError ==
  \A r \in Rewards :
     (rloc[r].code = "0x" /\ rctx[r] = "controller")
       => /\ rpc[r] = "done"
          /\ rlog[r] = <<"getUserById", "getCode">>
          /\ rres[r].code = 400
          /\ Includes(rres[r].message, NeedleNoContract)
          /\ ~Includes(rres[r].message, NeedleInsufficient)

C6_Witness ==
  \E r \in Rewards :
     /\ rpc[r] = "done"
     /\ rloc[r].code = "0x" /\ rctx[r] = "controller"
     /\ rres[r] = Reply(400, "error",
                        <<PhraseInvalidTokenContract, PhraseCheckFailed, PhraseNoContract>>)

\* C7: a transferTokens that fails on its own balance re-check or on a
\* non-compliant token is answered with 400; one that fails on the transfer
\* or on its confirmation is answered with 500.
C7_TransferFailureStatus ==
  \A r \in Rewards :
     (rpc[r] = "done" /\ "transferTokens" \in Calls(rlog[r]) /\ rres[r].code # 200)
       => LET last == rlog[r][Len(rlog[r])]
          IN /\ rloc[r].recheck = "no" => rres[r].code = 400
             /\ last = "balanceOf" => rres[r].code = 400
             /\ last \in {"transfer", "wait"} => rres[r].code = 500

\* the requests of POST /reward-currency that have all been answered
AllAnswered == \A p \in Callers : apc[p] \in {"idle", "done"}

\* the spellings of the symbol P among the bodies
SpellingsOfP == {CurLowerP, CurPaddedP}

\* C11: rewards whose symbols differ only in case or surrounding white space
\* are credited to one upper-case key: once every request is answered, the
\* balance of P is the initial one plus the amounts of the requests answered
\* 200 under any spelling of P, and no key other than P and Q exists.
C11_OneNormalizedKey ==
  \A u \in Users :
     /\ (store[u].exists /\ store[u].hasMap) => DOMAIN store[u].currencyMap \subseteq {CurP, CurQ}
     /\ AllAnswered =>
           BalanceOf(store[u], CurP)
             = BalanceOf(store0[u], CurP)
                 + SumAmounts({p \in Callers : /\ ares[p].code = 200
                                               /\ abody[p].userId = u
                                               /\ abody[p].currency.str \in SpellingsOfP})

\* {p, 10} and {' P ', '5'} were both answered 200 and P holds 15 more
C11_Witness ==
  \E p, q \in Callers :
     /\ abody[p] = Body("u1", JsString(CurLowerP), JsNumber(10))
     /\ abody[q] = Body("u1", JsString(CurPaddedP), JsString(<<"5">>))
     /\ ares[p].code = 200 /\ ares[q].code = 200
     /\ store["u1"].hasMap /\ DOMAIN store["u1"].currencyMap = {CurP}
     /\ BalanceOf(store["u1"], CurP) = BalanceOf(store0["u1"], CurP) + 15

\* the bodies whose only fault is the amount: not a number, or not positive
BadAmountBodies ==
  {b \in InvalidBodies :
     b.userId = "u1" /\ b.currency = JsString(CurLowerP) /\ b.amount.type # "undefined"}

\* C12: a request with a missing field, a blank currency, a non-numeric
\* amount or an amount <= 0 is answered 400 without updateCurrencyBalance
\* being called, and for a bad amount the message contains 'positive'.
C12_InvalidBodyRejected ==
  \A p \in Callers :
     (apc[p] # "idle" /\ abody[p] \in InvalidBodies)
       => /\ apc[p] = "done"
          /\ ares[p].code = 400 /\ ares[p].status = "error"
          /\ upc[p] = "idle" /\ usent[p] = <<>>
          /\ abody[p] \in BadAmountBodies => Includes(ares[p].message, NeedlePositive)

\* a zero amount and a non-numeric amount were both answered 400
C12_Witness ==
  \E p, q \in Callers :
     /\ abody[p] = Body("u1", JsString(CurLowerP), JsNumber(0))
     /\ abody[q] = Body("u1", JsString(CurLowerP), JsString(<<"1", "0", "a", "b", "c">>))
     /\ ares[p].code = 400 /\ ares[q].code = 400
     /\ upc[p] = "idle" /\ upc[q] = "idle"

HasWallet(item) == item.exists /\ Trim(item.walletAddress) # Blank

\* C14: GET /load for a user whose item holds a wallet address, once the
\* item was read, answers 200 with that address and a message saying that
\* the user already has a wallet, and writes nothing.
C14_ExistingWalletAnswer ==
  [][\A l \in Loaders :
       (lpc[l] = "read" /\ lpc'[l] = "done" /\ HasWallet(store[luser[l]])
          /\ lres'[l].code # 500)
         => /\ lres'[l].code = 200
            /\ lres'[l].data.walletAddress = store[luser[l]].walletAddress
            /\ store' = store
            /\ lres'[l].message # <<>>]_vars

\* C15: GET /load writes only in its wallet generation, which stores an
\* address that passes isValidEthereumAddress and answers 200 with the
\* stored address and a message saying that a wallet was generated; for a
\* userId without an item it answers 404 and writes nothing.
C15_LoadGeneratesWhenWalletless ==
  [][\A l \in Loaders :
       /\ (lpc'[l] # lpc[l] /\ store' # store)
            => /\ lpc[l] = "write"
               /\ isValidEthereumAddress(store'[luser[l]].walletAddress)
               /\ lres'[l].code = 200
               /\ lres'[l].data.walletAddress = store'[luser[l]].walletAddress
               /\ lres'[l].message # <<>>
       /\ (lpc[l] = "read" /\ lpc'[l] = "done" /\ ~store[luser[l]].exists
              /\ lres'[l].code # 500)
            => lres'[l].code = 404 /\ store' = store]_vars

\* the whole string is a decimal literal whose value is above zero
StrictlyPositiveDecimal(str) ==
  /\ IsDecimalLiteral(str)
  /\ ~LessOrEqualZero(ParseFloat(str))

\* '0x' and 40 hexadecimal digits
WellFormedAddress(address) ==
  /\ Len(address) = 42
  /\ SubSeq(address, 1, 2) = <<"0", "x">>
  /\ \A i \in 3..42 : address[i] \in HexChars

\* C16: a GET /reward request whose token is missing or is not a well-formed
\* address, or whose amount is missing or is not in full a strictly positive
\* decimal, is answered 400 before any call to the store or the chain.
C16_InvalidRewardRejectedFirst ==
  \A r \in Rewards :
     (rpc[r] # "idle"
        /\ (~WellFormedAddress(rq[r].token) \/ ~StrictlyPositiveDecimal(rq[r].amount)))
       => /\ rpc[r] = "done"
          /\ rres[r].code = 400
          /\ rlog[r] = <<>>

\* C17: when the lookup of an existing user fails at the store, GET /reward
\* answers 500.
C17_LookupFailureIsServerError ==
  \A r \in Rewards :
     (rpc[r] = "done" /\ rlog[r] = <<"getUserById">> /\ store[rq[r].userId].exists)
       => rres[r].code = 500

\* C18: every error answer has status 'error' and a message, and every 500
\* also has details.
C18_ErrorBodyShape ==
  \A r \in Rewards :
     (rpc[r] = "done" /\ rres[r].code >= 400)
       => /\ rres[r].status = "error"
          /\ rres[r].message # <<>>
          /\ rres[r].code = 500 => rres[r].details # <<>>

\* C20: once the transfer is confirmed, getTokenInfo returns whatever
\* metadata calls fail: decimals falls back to 18, name and symbol each to
\* their sentinel, and the request is answered 200 with that name and symbol.
C20_MetadataNeverBlocks ==
  \A r \in Rewards :
     "getTokenInfo" \in Calls(rlog[r])
       => LET metadata == rloc[r].metadata
              tokenInfo == rloc[r].tokenInfo
          IN /\ rpc[r] = "done" /\ rres[r].code = 200
             /\ tokenInfo.decimals = (IF metadata.decimals.ok THEN metadata.decimals.value
                                      ELSE 18)
             /\ tokenInfo.name = (IF metadata.name THEN "Token" ELSE "Unknown Token")
             /\ tokenInfo.symbol = (IF metadata.symbol THEN "TKN" ELSE "UNKNOWN")
             /\ rres[r].data.name = tokenInfo.name
             /\ rres[r].data.symbol = tokenInfo.symbol

\* name() and decimals() failed, symbol() answered, and the answer is 200
C20_Witness ==
  \E r \in Rewards :
     /\ rpc[r] = "done" /\ rres[r].code = 200
     /\ "wait" \in Calls(rlog[r])
     /\ ~rloc[r].metadata.name /\ rloc[r].metadata.symbol /\ ~rloc[r].metadata.decimals.ok
     /\ rres[r].data.name = "Unknown Token" /\ rres[r].data.symbol = "TKN"
     /\ rloc[r].tokenInfo.decimals = 18

\* C19: every stored walletAddress that is not empty is a well-formed
\* address, a linkWallet call that fails changes nothing, and a POST
\* /link-wallet with an address that is not well formed is answered 400
\* and changes nothing.
C19_StoredWalletsWellFormed ==
  [][/\ \A u \in Users :
          (store'[u].exists /\ store'[u].walletAddress # Blank)
            => WellFormedAddress(store'[u].walletAddress)
     /\ (links' # links /\ links'[Len(links')].status = "error") => store' = store
     /\ plink' # plink =>
          LET request == plink'[Len(plink')]
          IN ~WellFormedAddress(request.walletAddress)
               => request.reply.code = 400 /\ store' = store]_vars

\* C21: isValidAddress is true exactly for '0x' followed by 40 hexadecimal
\* digits in any letter case, and BlockchainService.isValidAddress and
\* UserStore.isValidEthereumAddress give the same answer on every string.
C21_ValidatorsAgree ==
  vres.asked =>
    /\ vres.gateway = WellFormedAddress(vres.address)
    /\ vres.gateway = vres.store

\* C22: createdAt is set when the record is created and no later operation
\* (relink, heal, credit) changes it; every write to a record sets updatedAt
\* to a value not earlier than the one it replaces, also when calls overlap.
C22_TimestampsMonotone ==
  [][\A u \in Users :
       (store[u].exists /\ store'[u].exists) =>
         /\ store'[u].createdAt = store[u].createdAt
         /\ store'[u].updatedAt >= store[u].updatedAt]_vars

\* C23: when the retry write is issued, a record that exists has its
\* currencyMap, whatever updateBalance, linkWallet and GET /load calls ran in
\* between; so the retry credits the amount or fails because the record is
\* absent, never because the container is missing.
C23_ContainerAtRetry ==
  \A p \in Callers :
     /\ upc[p] = "retry" =>
           (store[uarg[p].userId].exists => store[uarg[p].userId].hasMap)
     /\ ures[p] # Failure(<<PhraseFailedAfterInit, PhraseInvalidPath>>)

\* the store did not answer the command
StoreUnavailable(result) ==
  /\ result.status = "error"
  /\ result.message # <<>>
  /\ result.message[Len(result.message)] = PhraseStoreDown

\* C24: when the record is deleted after the re-read, the heal or retry write
\* that finds it missing fails with 'could not be updated (potentially deleted
\* during operation)', which POST /reward-currency answers as a server error
\* carrying that text; the record is not created again and nothing is credited.
C24_DeletedAfterReread ==
  [][\A p \in Callers :
       (/\ upc[p] \in {"heal", "retry"}
        /\ usent'[p] # usent[p]
        /\ ~store[uarg[p].userId].exists
        /\ ~StoreUnavailable(ures'[p]))
       => /\ ures'[p] = Failure(<<PhraseCouldNotBeUpdated>>)
          /\ RewardCurrencyCatch(ures'[p]).code = 500
          /\ RewardCurrencyCatch(ures'[p]).details = <<PhraseCouldNotBeUpdated>>
          /\ ~store'[uarg[p].userId].exists
          /\ ~uapplied'[p]
          /\ Balances(store') = Balances(store)]_vars

\* the record was deleted between the heal write and the retry
C24_Witness ==
  \E p \in Callers :
     /\ upc[p] = "done"
     /\ usent[p] = HealPath
     /\ store0[uarg[p].userId].exists
     /\ ~store[uarg[p].userId].exists
     /\ ures[p] = Failure(<<PhraseCouldNotBeUpdated>>)

\* C25: a call sends the store exactly one command when the record and its
\* container exist; otherwise it sends at most the first attempt, the re-read,
\* the heal write and the retry, in that order and each at most once.
C25_BoundedCommands ==
  /\ [](\A p \in Callers :
          /\ Len(usent[p]) <= Len(HealPath)
          /\ usent[p] = SubSeq(HealPath, 1, Len(usent[p])))
  /\ [][\A p \in Callers :
          (/\ usent[p] = <<>>
           /\ usent'[p] # <<>>
           /\ store[uarg[p].userId].exists
           /\ store[uarg[p].userId].hasMap)
          => (upc'[p] = "done" /\ usent'[p] = <<"UpdateMain">>)]_vars

\* one call was served by its first command, another went through the heal
C25_Witness ==
  \E p, q \in Callers :
     /\ upc[p] = "done" /\ upc[q] = "done"
     /\ ures[p].status = "ok" /\ ures[q].status = "ok"
     /\ usent[p] = HealPath
     /\ usent[q] = <<"UpdateMain">>

\* the calls transferTokens has made so far, its own name left out
InCall(log) == SubSeq(log, TransferIndex(log) + 1, Len(log))

\* C26: transferTokens submits the transfer only after it has itself read the
\* contract code and the admin balance again and found them fit; it returns
\* the receipt only after the transaction is confirmed; the 200 answer is
\* never sent before the confirmation and carries the transaction hash and
\* the block number.
C26_TransferAfterRecheck ==
  \A r \in Rewards :
     /\ "transfer" \in Calls(rlog[r])
          => /\ SubSeq(InCall(rlog[r]), 1, 6)
                  = <<"decimals", "getCode", "balanceOf", "decimals", "getCode", "transfer">>
             /\ rloc[r].recheck = "yes"
             /\ rloc[r].code \notin {"", "0x"}
             /\ rloc[r].recode \notin {"", "0x"}
     /\ "wait" \in Calls(rlog[r]) => SubSeq(InCall(rlog[r]), 6, 7) = <<"transfer", "wait">>
     /\ (rpc[r] = "tokenInfo" \/ "getTokenInfo" \in Calls(rlog[r]))
          => "wait" \in Calls(rlog[r])
     /\ rres[r].code = 200
          => /\ SubSeq(InCall(rlog[r]), 6, 8) = <<"transfer", "wait", "getTokenInfo">>
             /\ rres[r].data.transactionHash # ""
             /\ rres[r].data.blockNumber > 0

\* a request was answered 200 after its transfer was confirmed
C26_Witness ==
  \E r \in Rewards :
     /\ rres[r].code = 200
     /\ rloc[r].recheck = "yes"
     /\ rlog[r][Len(rlog[r]) - 1] = "wait"

\* C29: transferTokens is never invoked with an empty or invalid recipient; a
\* GET /reward for a user whose walletAddress is blank submits no transfer.
C29_RecipientChecked ==
  \A r \in Rewards :
     /\ "transferTokens" \in Calls(rlog[r]) => WellFormedAddress(rloc[r].user.walletAddress)
     /\ rloc[r].user.walletAddress = Blank => "transfer" \notin Calls(rlog[r])

\* C30: within one transferTokens call, the amount passed to transfer is the
\* amount its hasAdminSufficientBalance compared with the balance, also when
\* decimals() fails on one of the two reads and answers on the other.
C30_SameAmountCheckedAndSent ==
  \A r \in Rewards :
     (rctx[r] = "transfer" /\ rloc[r].recheck = "yes" /\ "transfer" \in Calls(rlog[r]))
       => rloc[r].amountInWei = rloc[r].checked

\* C27: when two GET /load requests for the same user without a wallet run
\* concurrently, the record holds one address once both are answered and every
\* 200 answer carries exactly that address.
C27_ConcurrentLoadsAgree ==
  \A l, m \in Loaders :
     (/\ l # m
      /\ lpc[l] = "done" /\ lpc[m] = "done"
      /\ luser[l] \in Users /\ luser[m] = luser[l]
      /\ store0[luser[l]].exists /\ store0[luser[l]].walletAddress = Blank
      /\ links = <<>> /\ plink = <<>>
      /\ \A k \in Clearers : cpc[k] = "idle")
     => /\ store[luser[l]].exists
        /\ lres[l].code = 200 => lres[l].data.walletAddress = store[luser[l]].walletAddress

\* C28: GET /load never replaces a walletAddress that is not blank, also when
\* the wallet is linked between the request's read and its write.
C28_LoadKeepsWallet ==
  [][\A l \in Loaders :
       (/\ lpc[l] = "write" /\ lpc'[l] = "done"
        /\ store[luser[l]].exists
        /\ store[luser[l]].walletAddress # Blank)
       => store'[luser[l]].walletAddress = store[luser[l]].walletAddress]_vars

====
